---- MODULE Spec2Model ----
(***************************************************************************)
(* The request lifecycle of YogaServer.handleRequest                       *)
(* (packages/common/src/server.ts) with the plugins the constructor        *)
(* installs: useCORS, useGraphiQL, useHealthCheck and the user plugins.    *)
(* One request is followed from the first onRequest hook to the value      *)
(* handleRequest settles with.  Every await of handleRequest is one step.  *)
(***************************************************************************)
EXTENDS Integers, Sequences, FiniteSets, TLC

\* undefined / null / a header or key that is not there
Absent == "absent"

\* number of plugins passed in options.plugins
MaxUserPlugins == 2
\* number of deferred capability calls followed while processRequest is awaited
MaxLateCalls == 1

(***************************************************************************)
(* Values                                                                  *)
(***************************************************************************)

\* GraphQLParams: the keys the parsers fill (types.ts GraphQLParams)
ParamKeys == {"query", "variables", "operationName", "extensions"}

\* the object of the default parser, () => ({})
EmptyParams == [k \in ParamKeys |-> Absent]

\* what a hook can throw: a GraphQLError, an Error, a value without a
\* message property (throw "boom"), null/undefined
GraphQLErrorValue ==
    [kind |-> "GraphQLError", message |-> "gql failure", extensions |-> "ext"]
ErrorValue ==
    [kind |-> "Error", message |-> "boom", extensions |-> "hidden"]
StringValue ==
    [kind |-> "string", message |-> Absent, extensions |-> Absent]
NullValue ==
    [kind |-> "null", message |-> Absent, extensions |-> Absent]
Thrown == {GraphQLErrorValue, ErrorValue, StringValue, NullValue}
NoThrow == [kind |-> "none", message |-> Absent, extensions |-> Absent]

\* the TypeError raised by reading a property of null or undefined
TypeErrorValue ==
    [kind |-> "Error", message |-> "Cannot read properties of null",
     extensions |-> Absent]

NoHeaders == [h \in {} |-> <<>>]
NoData == [k \in {"query", "variables", "operationName"} |-> Absent]
TextBody(t) == [text |-> t, errors |-> <<>>, data |-> NoData]

\* new Response(body, init): id is the identity of the constructed object
NewResponse(id, body, status, headers) ==
    [id |-> id, status |-> status, body |-> body, headers |-> headers]
NoResponse == NewResponse(0, TextBody(Absent), 0, NoHeaders)

(***************************************************************************)
(* The request and the server options                                      *)
(***************************************************************************)

\* An optional value is <<>> (null, undefined, not there) or <<v>>.
\* Header values and origins are strings, written as sequences of tokens so
\* that String.includes and Array.join can be computed; <<>> is ''.
None == <<>>
Some(v) == <<v>>

\* request.url as tokens; "?" starts the query string
Urls ==
    { <<"/graphql">>, <<"/api", "/health">>, <<"/graphql", "?", "/health">>,
      <<"/readiness">> }

PlainHeaders ==
    [origin |-> None, cookies |-> None, requestMethod |-> None,
     requestHeaders |-> None]
BrowserHeaders ==
    [origin |-> Some(<<"http://a.test">>), cookies |-> Some(<<"sid=1">>),
     requestMethod |-> None, requestHeaders |-> Some(<<"x-token">>)]

\* method, url, whether shouldRenderGraphiQL(request) holds, content type,
\* the headers origin, cookies, access-control-request-method and -headers,
\* and the GraphQLParams its query string or body encodes
RequestParams ==
    [EmptyParams EXCEPT !["query"] = "{ greetings }", !["variables"] = "vars"]
ContentTypes(m) ==
    IF m = "POST" THEN {"application/json", "multipart/form-data"} ELSE {Absent}
Requests ==
    UNION { { [method |-> m, url |-> u, html |-> FALSE, contentType |-> ct,
               headers |-> PlainHeaders, graphql |-> RequestParams] :
                 u \in Urls, ct \in ContentTypes(m) } :
            m \in {"GET", "POST", "OPTIONS"} }
    \cup
    { [method |-> "GET", url |-> u, html |-> TRUE, contentType |-> Absent,
       headers |-> PlainHeaders, graphql |-> RequestParams] :
         u \in {<<"/graphql">>, <<"/api", "/health">>} }
    \cup
    { [method |-> m, url |-> <<"/graphql">>, html |-> FALSE,
       contentType |-> Absent, headers |-> BrowserHeaders,
       graphql |-> RequestParams] : m \in {"GET", "options"} }

\* serverContext: undefined, or an object that has keys of its own
ServerContexts ==
    { EmptyParams, [EmptyParams EXCEPT !["query"] = "{ fromContext }"] }

\* CORSOptions (types.ts): origin is absent, a list of origins or one string
NoOrigin == [form |-> "absent", list |-> <<>>, str |-> <<>>]
OriginList(l) == [form |-> "list", list |-> l, str |-> <<>>]
OriginString(s) == [form |-> "string", list |-> <<>>, str |-> s]
EmptyCORSOptions ==
    [origin |-> NoOrigin, methods |-> None, allowedHeaders |-> None,
     exposedHeaders |-> None, credentials |-> None, maxAge |-> None]

\* YogaServerOptions: cors (false, or the options object), graphiql (false
\* or not), endpoint, id, multipart, and the number of options.plugins
DefaultOptions ==
    [cors |-> [enabled |-> TRUE, options |-> EmptyCORSOptions],
     graphiql |-> TRUE, endpoint |-> Absent, id |-> Absent,
     multipart |-> TRUE, plugins |-> 0]
ServerOptions ==
    { [DefaultOptions EXCEPT !.cors.enabled = c, !.graphiql = g,
                             !.endpoint = e] :
        c \in BOOLEAN, g \in BOOLEAN, e \in {Absent, "/graphql"} }
    \cup { [DefaultOptions EXCEPT !.id = "srv1"] }
    \cup { [DefaultOptions EXCEPT !.multipart = FALSE] }
    \cup { [DefaultOptions EXCEPT
              !.cors.options.origin = OriginList(<<(<<"http://b.test">>)>>)] }

\* the servers that have user plugins
PluginServerOptions ==
    { [DefaultOptions EXCEPT !.cors.enabled = c, !.plugins = MaxUserPlugins] :
        c \in BOOLEAN }
\* the requests that reach the user plugins of such a server: a GET and a
\* JSON POST of /graphql, and an OPTIONS when useCORS is not installed
PluginInputs ==
    { in \in PluginServerOptions \X Requests \X {EmptyParams} :
        /\ in[2].url = <<"/graphql">>
        /\ in[2].headers = PlainHeaders
        /\ ~in[2].html
        /\ in[2].contentType # "multipart/form-data"
        /\ in[1].cors.enabled = (in[2].method # "OPTIONS") }

\* the servers and requests followed: every server without user plugins with
\* every request and serverContext, and the servers with user plugins
Inputs == (ServerOptions \X Requests \X ServerContexts) \cup PluginInputs

\* Inputs of getCORSResponseHeaders: origins as tokens, so that one origin
\* can be a proper prefix of another
OriginA == <<"http://a", ".test">>
OriginAPrefix == <<"http://a">>
OriginB == <<"http://b", ".test">>
Wildcard == <<"*">>

\* the request headers getCORSResponseHeaders reads: absent, empty or set
CorsHeaders ==
    [origin : {None, Some(<<>>), Some(OriginA), Some(OriginAPrefix)},
     cookies : {None, Some(<<"sid=1">>)},
     requestMethod : {None, Some(<<"POST">>)},
     requestHeaders : {None, Some(<<"x-token">>)}]

\* a preflight and a GET of /graphql with each of these headers
CorsRequests ==
    { [method |-> m, url |-> <<"/graphql">>, html |-> FALSE,
       contentType |-> Absent, headers |-> h, graphql |-> RequestParams] :
         m \in {"GET", "OPTIONS"}, h \in CorsHeaders }

\* CORSOptions: every form of origin with every credentials and with or
\* without allowedHeaders, policies with methods, exposedHeaders, maxAge,
\* and one with empty lists of methods and allowedHeaders
CorsPolicies ==
    { [EmptyCORSOptions EXCEPT !.origin = o, !.credentials = c,
                               !.allowedHeaders = a] :
        o \in { NoOrigin, OriginList(<<>>), OriginList(<<OriginA>>),
                OriginList(<<OriginB>>), OriginList(<<OriginB, Wildcard>>),
                OriginString(OriginA), OriginString(OriginB),
                OriginString(Wildcard) },
        c \in {None, Some(TRUE), Some(FALSE)},
        a \in {None, Some(<< <<"x-a">>, <<"x-b">> >>)} }
    \cup
    { [EmptyCORSOptions EXCEPT !.methods = Some(<< <<"GET">>, <<"POST">> >>),
                               !.exposedHeaders = Some(e), !.maxAge = Some(a)] :
        e \in {<<>>, << <<"x-yoga-id">> >>}, a \in {0, 600} }
    \cup
    { [EmptyCORSOptions EXCEPT !.methods = Some(<<>>),
                               !.allowedHeaders = Some(<<>>)] }

\* servers constructed with { cors: policy } and the CORS requests
CorsInputs ==
    { [DefaultOptions EXCEPT !.cors.options = p] : p \in CorsPolicies }
    \X CorsRequests \X {EmptyParams}

(***************************************************************************)
(* String helpers                                                          *)
(***************************************************************************)

\* s.split('?')[0]
RECURSIVE BeforeQuery(_)
BeforeQuery(s) ==
    IF s = <<>> \/ Head(s) = "?" THEN <<>>
    ELSE <<Head(s)>> \o BeforeQuery(Tail(s))

\* s.endsWith(suffix), suffix one token
EndsWith(s, suffix) == s # <<>> /\ s[Len(s)] = suffix

\* s.replace(from, to): the first occurrence only
RECURSIVE ReplaceFirst(_, _, _)
ReplaceFirst(s, from, to) ==
    IF s = <<>> THEN <<>>
    ELSE IF Head(s) = from THEN <<to>> \o Tail(s)
    ELSE <<Head(s)>> \o ReplaceFirst(Tail(s), from, to)

\* method.toUpperCase()
ToUpperCase(m) == IF m = "options" THEN "OPTIONS" ELSE m

\* list.join(', ')
RECURSIVE Join(_)
Join(list) ==
    IF list = <<>> THEN <<>>
    ELSE IF Len(list) = 1 THEN list[1]
    ELSE list[1] \o <<", ">> \o Join(Tail(list))

\* String.includes: x is a run of consecutive tokens of s
StringIncludes(s, x) ==
    \E k \in 0..(Len(s) - Len(x)) : SubSeq(s, k + 1, k + Len(x)) = x

\* corsOptions.origin?.length
OriginLength(origin) ==
    IF origin.form = "list" THEN Len(origin.list)
    ELSE IF origin.form = "string" THEN Len(origin.str)
    ELSE 0

\* corsOptions.origin.includes(x), on an array or on a string
OriginIncludes(origin, x) ==
    IF origin.form = "list" THEN \E k \in 1..Len(origin.list) : origin.list[k] = x
    ELSE StringIncludes(origin.str, x)

\* a header value that is neither null nor ''
Truthy(v) == v # None /\ v[1] # <<>>

(***************************************************************************)
(* useCORS                                                                 *)
(***************************************************************************)

\* mutant: the origin is echoed whether or not credentials were asked
NarrowedOrigin_anyOrigin(currentOrigin, credentialsAsked) ==
    IF Truthy(currentOrigin) THEN currentOrigin[1] ELSE <<"*">>

\* Access-Control-Allow-Origin after lines 30-37
NarrowedOrigin(currentOrigin, credentialsAsked) ==
    IF Truthy(currentOrigin) /\ Truthy(credentialsAsked)
    THEN currentOrigin[1] ELSE <<"*">>

\* mutant: credentials: false does not switch the header off
AllowCredentials_ignoreFalse(credentials, allowOrigin) ==
    credentials = Some(TRUE) \/ allowOrigin # <<"*">>

\* whether lines 75-81 set Access-Control-Allow-Credentials
AllowCredentials(credentials, allowOrigin) ==
    IF credentials # None THEN credentials[1] = TRUE
    ELSE allowOrigin # <<"*">>

\* mutant: what the request asks for is echoed even when the policy
\* declares a list
AllowList_askedFirst(declared, asked) ==
    IF Truthy(asked) THEN Some(asked[1])
    ELSE IF declared # None /\ Len(declared[1]) > 0
    THEN Some(Join(declared[1]))
    ELSE None

\* the value of Access-Control-Allow-Methods (lines 52-59) or
\* Access-Control-Allow-Headers (lines 61-67), <<>> when the header is not
\* set: the policy's list joined, else what the request asks for
AllowList(declared, asked) ==
    IF declared # None /\ Len(declared[1]) > 0
    THEN Some(Join(declared[1]))
    ELSE IF Truthy(asked) THEN Some(asked[1])
    ELSE None

\* getCORSResponseHeaders(request, serverContext, corsOptionsFactory)
getCORSResponseHeaders(req, corsOptions) ==
    LET currentOrigin == req.headers.origin
        credentialsAsked == req.headers.cookies
        narrowed == NarrowedOrigin(currentOrigin, credentialsAsked)
        denied ==
            /\ currentOrigin # None
            /\ OriginLength(corsOptions.origin) > 0
            /\ ~OriginIncludes(corsOptions.origin, currentOrigin[1])
            /\ ~OriginIncludes(corsOptions.origin, <<"*">>)
        allowOrigin == IF denied THEN <<"null">> ELSE narrowed
        h1 == "Access-Control-Allow-Origin" :> allowOrigin
        h2 == IF allowOrigin # <<"*">> THEN ("Vary" :> <<"Origin">>) @@ h1 ELSE h1
        requestMethod == req.headers.requestMethod
        allowMethods == AllowList(corsOptions.methods, requestMethod)
        h3 == IF allowMethods # None
              THEN ("Access-Control-Allow-Methods" :> allowMethods[1]) @@ h2
              ELSE h2
        requestHeaders == req.headers.requestHeaders
        allowHeaders == AllowList(corsOptions.allowedHeaders, requestHeaders)
        h4 == IF corsOptions.allowedHeaders # None
                 /\ Len(corsOptions.allowedHeaders[1]) > 0
              THEN ("Access-Control-Allow-Headers" :> allowHeaders[1]) @@ h3
              ELSE IF allowHeaders # None
              THEN ("Access-Control-Allow-Headers" :> allowHeaders[1])
                   @@ ("Vary" :> <<"Access-Control-Request-Headers">>) @@ h3
              ELSE h3
        h5 == IF AllowCredentials(corsOptions.credentials, allowOrigin)
              THEN ("Access-Control-Allow-Credentials" :> <<"true">>) @@ h4
              ELSE h4
        h6 == IF corsOptions.exposedHeaders # None
              THEN ("Access-Control-Expose-Headers" :> Join(corsOptions.exposedHeaders[1])) @@ h5
              ELSE h5
        h7 == IF corsOptions.maxAge # None /\ corsOptions.maxAge[1] # 0
              THEN ("Access-Control-Max-Age" :> <<ToString(corsOptions.maxAge[1])>>) @@ h6
              ELSE h6
    IN  ("Server" :> <<"GraphQL Yoga">>) @@ h7

\* mutant: the computed headers are not set
SetHeaders_none(resp, headers) == resp

\* response.headers.set(name, value) for every computed header
SetHeaders(resp, headers) == [resp EXCEPT !.headers = headers @@ @]

(***************************************************************************)
(* What one invocation of an onRequest hook does: the endResponse calls it *)
(* makes (body, status, headers), the onRequestDone hook it returns, the   *)
(* value it throws, and the round trip it made with the injected fetch.    *)
(***************************************************************************)

EndCall(body, status, headers) ==
    [body |-> body, status |-> status, headers |-> headers]
Behaviour(ends, done, throws) ==
    [ends |-> ends, done |-> done, throws |-> throws, probe |-> None]

\* useCORS(options).onRequest
useCORS(req, opts) ==
    IF ToUpperCase(req.method) = "OPTIONS"
    THEN { Behaviour(<<EndCall(TextBody(Absent), 204,
                               getCORSResponseHeaders(req, opts.cors.options))>>,
                     "none", NoThrow) }
    ELSE { Behaviour(<<>>, "useCORS", NoThrow) }

\* shouldRenderGraphiQL(request), imported from ../graphiql
shouldRenderGraphiQL(req) == req.html

\* useGraphiQL(config).onRequest; the factory of the default options is
\* () => ({}), so graphiqlOptions is truthy
useGraphiQL(req, opts) ==
    LET requestPath == BeforeQuery(req.url)
    IN  IF opts.endpoint # Absent /\ ~EndsWith(requestPath, opts.endpoint)
        THEN { Behaviour(<<EndCall(TextBody("Unable to"), 404, NoHeaders)>>,
                         "none", NoThrow) }
        ELSE IF shouldRenderGraphiQL(req)
        THEN { Behaviour(<<EndCall(TextBody("graphiql"), 200,
                                   "Content-Type" :> <<"text/html">>)>>,
                         "none", NoThrow) }
        ELSE { Behaviour(<<>>, "none", NoThrow) }

\* this.id = options?.id ?? 'yoga'
ServerId(opts) == IF opts.id = Absent THEN "yoga" ELSE opts.id

\* const id = options?.id || Date.now().toString()
HealthCheckId(id) == IF id = Absent \/ id = "" THEN "Date.now" ELSE id

\* the /health response of a server constructed with opts, as the readiness
\* round trip reads it: status, x-yoga-id header and message (lines 20-26)
HealthAnswer(opts, by) ==
    [status |-> 200, id |-> HealthCheckId(ServerId(opts)),
     message |-> "alive", by |-> by]

\* the other server instances a proxy can route the round trip to
Peers(opts) ==
    { [opts EXCEPT !.id = d] : d \in {Absent, "srv1", "srv2"} }

\* what the injected fetch can answer to the readiness round trip: this
\* instance's /health, the /health of another instance, or anything else
ProbeAnswers(opts) ==
    { HealthAnswer(opts, "self") }
    \cup { HealthAnswer(o, "peer") : o \in Peers(opts) }
    \cup [status : {200, 503},
          id : {HealthCheckId(ServerId(opts)), "other", Absent},
          message : {"alive", "dead"}, by : {"proxy"}]

\* the round trip of line 29: the url fetched and the answer read from it
\* (<<>> when fetch or json() rejects)
Probe(url, answer) == [url |-> url, answer |-> answer]

\* mutant: the identity header is not compared
ProbeOk_anyId(a, id) == a.status = 200 /\ a.message = "alive"

\* the condition of lines 33-37
ProbeOk(a, id) == a.status = 200 /\ a.id = id /\ a.message = "alive"

ReadinessError ==
    [kind |-> "Error", message |-> "Readiness check failed with status",
     extensions |-> Absent]

\* mutant: the failure is not thrown, the hook returns
Fails_silently(error) == Behaviour(<<>>, "none", NoThrow)

\* throw error, or an awaited promise that rejects with it (lines 29-32,
\* 45-47)
Fails(error) == Behaviour(<<>>, "none", error)

\* useHealthCheck(options).onRequest
useHealthCheck(req, opts) ==
    LET id == HealthCheckId(ServerId(opts))
        requestPath == BeforeQuery(req.url)
        fetched == ReplaceFirst(req.url, "/readiness", "/health")
    IN  IF EndsWith(requestPath, "/health")
        THEN { Behaviour(<<EndCall(TextBody("alive"), 200,
                                   ("Content-Type" :> <<"application/json">>)
                                   @@ ("x-yoga-id" :> <<id>>))>>,
                         "none", NoThrow) }
        ELSE IF EndsWith(requestPath, "/readiness")
        THEN { [ (IF ProbeOk(a, id)
                  THEN Behaviour(<<EndCall(TextBody("ready"), 200,
                                     "Content-Type" :> <<"application/json">>)>>,
                                 "none", NoThrow)
                  ELSE Fails(ReadinessError))
                 EXCEPT !.probe = Some(Probe(fetched, Some(a))) ] :
               a \in ProbeAnswers(opts) }
             \cup { [Fails(ErrorValue)
                       EXCEPT !.probe = Some(Probe(fetched, None))] }
        ELSE { Behaviour(<<>>, "none", NoThrow) }

\* a plugin of options.plugins: any onRequest hook
UserEnd(k) == EndCall(TextBody("early"), 200 + k, NoHeaders)
UserOnRequest ==
    { Behaviour(e, d, NoThrow) :
        e \in {<<>>, <<UserEnd(1)>>, <<UserEnd(1), UserEnd(2)>>},
        d \in {"none", "user"} }
    \cup { Behaviour(e, "none", t) : e \in {<<>>, <<UserEnd(1)>>}, t \in Thrown }

(***************************************************************************)
(* The request parsers and the onRequestParse hooks                        *)
(***************************************************************************)

Parser(kind, n) == [kind |-> kind, n |-> n]
\* let requestParser: RequestParser = () => ({})
NoopParser == Parser("noop", 0)

UserParser(n) == Parser("user", n)
\* the GraphQLParams the parser of user plugin n returns
UserParserParams(n) ==
    [EmptyParams EXCEPT !["query"] = "{ parsed" \o ToString(n) \o " }",
                        !["operationName"] = "op" \o ToString(n)]
\* the GraphQLParams a parse-done hook of user plugin n passes to setParams
UserSetParams(n) ==
    [EmptyParams EXCEPT !["query"] = "{ set" \o ToString(n) \o " }",
                        !["variables"] = "vars" \o ToString(n)]

\* requestParser(request), when it returns
ParserResult(parser, req) ==
    IF parser.kind = "noop" THEN EmptyParams
    ELSE IF parser.kind = "user" THEN UserParserParams(parser.n)
    ELSE req.graphql

\* the failure of a parser on malformed input: invalid JSON in a query-string
\* parameter or in the POST body, an unresolvable multipart map path
RequestParseError ==
    [kind |-> "Error", message |-> "RequestParseError", extensions |-> Absent]
\* the failure of the multipart parser on an exceeded limit
PayloadTooLargeError ==
    [kind |-> "Error", message |-> "PayloadTooLargeError",
     extensions |-> Absent]

\* the failures of the parsers of ./plugins/requestParser
BuiltinParserThrows(kind) ==
    IF kind \in {"GET", "POST"} THEN {RequestParseError}
    ELSE IF kind = "Multipart" THEN {RequestParseError, PayloadTooLargeError}
    ELSE {}

\* the values requestParser(request) can throw
ParserThrows(parser) ==
    IF parser.kind = "user" THEN Thrown ELSE BuiltinParserThrows(parser.kind)

\* mutant: the first parser installed stays
setRequestParser_keepFirst(current, parser) ==
    IF current = Parser("noop", 0) THEN parser ELSE current

\* setRequestParser(parser) { requestParser = parser }
setRequestParser(current, parser) == parser

\* mutant: the new params are merged into the current ones
setParams_merge(current, newParams) ==
    [k \in ParamKeys |->
        IF newParams[k] # Absent THEN newParams[k] ELSE current[k]]

\* setParams(newParams) { params = newParams }
setParams(current, newParams) == newParams

RECURSIVE ApplyAll(_, _, _)
\* the value of a variable after the calls of one hook, in order
ApplyAll(Op(_, _), current, calls) ==
    IF calls = <<>> THEN current
    ELSE ApplyAll(Op, Op(current, Head(calls)), Tail(calls))

ParseBehaviour(sets, done, throws) ==
    [sets |-> sets, done |-> done, throws |-> throws]

\* useGETRequestParser().onRequestParse
useGETRequestParser(req) ==
    IF req.method = "GET"
    THEN { ParseBehaviour(<<Parser("GET", 0)>>, "none", NoThrow) }
    ELSE { ParseBehaviour(<<>>, "none", NoThrow) }

\* usePOSTRequestParser().onRequestParse
usePOSTRequestParser(req) ==
    IF req.method = "POST" /\ req.contentType = "application/json"
    THEN { ParseBehaviour(<<Parser("POST", 0)>>, "none", NoThrow) }
    ELSE { ParseBehaviour(<<>>, "none", NoThrow) }

\* usePOSTMultipartRequestParser().onRequestParse
usePOSTMultipartRequestParser(req) ==
    IF req.method = "POST" /\ req.contentType = "multipart/form-data"
    THEN { ParseBehaviour(<<Parser("Multipart", 0)>>, "none", NoThrow) }
    ELSE { ParseBehaviour(<<>>, "none", NoThrow) }

\* a plugin of options.plugins: any onRequestParse hook
UserOnRequestParse(n) ==
    { ParseBehaviour(c, d, NoThrow) :
        c \in {<<>>, <<UserParser(n)>>}, d \in {"none", "user"} }
    \cup { ParseBehaviour(<<>>, "none", t) : t \in Thrown }

\* a plugin of options.plugins: any onRequestParseDone hook
UserOnRequestParseDone(n) ==
    { ParseBehaviour(c, "none", NoThrow) : c \in {<<>>, <<UserSetParams(n)>>} }
    \cup { ParseBehaviour(<<>>, "none", t) : t \in Thrown }

(***************************************************************************)
(* The constructor: the plugin list and the hooks collected from it        *)
(***************************************************************************)

Plugin(name, n) == [name |-> name, n |-> n]
\* enableIf(false, plugin): a plugin without hooks
NoPlugin == Plugin("none", 0)

\* this.plugins, from useGETRequestParser on (the plugins before it have
\* neither onRequest nor onRequestParse)
plugins(opts) ==
    << Plugin("useGETRequestParser", 0),
       Plugin("usePOSTRequestParser", 0),
       IF opts.multipart THEN Plugin("usePOSTMultipartRequestParser", 0)
       ELSE NoPlugin,
       IF opts.cors.enabled THEN Plugin("useCORS", 0) ELSE NoPlugin,
       IF opts.graphiql THEN Plugin("useGraphiQL", 0) ELSE NoPlugin,
       Plugin("useHealthCheck", 0) >>
    \o [n \in 1..opts.plugins |-> Plugin("user", n)]

HasOnRequestParse(plugin) ==
    plugin.name \in {"useGETRequestParser", "usePOSTRequestParser",
                     "usePOSTMultipartRequestParser", "user"}
HasOnRequest(plugin) ==
    plugin.name \in {"useCORS", "useGraphiQL", "useHealthCheck", "user"}

\* this.onRequestParseHooks
onRequestParseHooks(opts) == SelectSeq(plugins(opts), HasOnRequestParse)
\* this.onRequestHooks
onRequestHooks(opts) == SelectSeq(plugins(opts), HasOnRequest)

\* the call of one onRequest hook
OnRequestHook(hook, req, opts) ==
    IF hook.name = "useCORS" THEN useCORS(req, opts)
    ELSE IF hook.name = "useGraphiQL" THEN useGraphiQL(req, opts)
    ELSE IF hook.name = "useHealthCheck" THEN useHealthCheck(req, opts)
    ELSE UserOnRequest

\* the call of one onRequestParse hook
OnRequestParseHook(hook, req) ==
    IF hook.name = "useGETRequestParser" THEN useGETRequestParser(req)
    ELSE IF hook.name = "usePOSTRequestParser" THEN usePOSTRequestParser(req)
    ELSE IF hook.name = "usePOSTMultipartRequestParser"
    THEN usePOSTMultipartRequestParser(req)
    ELSE UserOnRequestParse(hook.n)

\* the values the onRequestDone hook returned by a plugin can throw
OnRequestDoneThrows(hook) == IF hook.name = "user" THEN Thrown ELSE {}

\* onRequestDone({ response }): useCORS stamps its headers on the response
OnRequestDoneHook(hook, resp, req, opts) ==
    IF hook.name = "useCORS"
    THEN SetHeaders(resp, getCORSResponseHeaders(req, opts.cors.options))
    ELSE resp

(***************************************************************************)
(* handleRequest                                                           *)
(***************************************************************************)

VARIABLES
    options,                \* the options the server was constructed with
    request,                \* the request handed to handleRequest
    serverContext,          \* args[0]
    pc,                     \* the await handleRequest is at
    i,                      \* index of the hook the current loop is at
    response,               \* the response local (lines 367 and 426)
    onRequestDoneHooks,     \* line 365
    requestParser,          \* line 386
    onRequestParseDoneList, \* line 387
    params,                 \* line 404
    initialContext,         \* line 415
    result,                 \* what the promise of handleRequest settles with
    nextId,                 \* identity of the next Response constructed
    lateCalls,              \* deferred capability calls made so far
    reqLog,                 \* onRequest hooks invoked: hook, whether it
                            \* returned an onRequestDone hook, the round
                            \* trip it made
    endLog,                 \* endResponse calls: hook and response made
    doneLog,                \* onRequestDone hooks invoked: hook and response
    parseLog,               \* onRequestParse hooks invoked: hook, the
                            \* requestParser it got, its setRequestParser
                            \* calls, whether it returned a parse-done hook
    parserLog,              \* parsers invoked
    pdLog,                  \* onRequestParseDone hooks invoked: hook, the
                            \* params it got, its setParams calls
    lateLog,                \* deferred calls: capability, hook
    envLog,                 \* getEnveloped calls: the params spread and the
                            \* initial context
    execLog,                \* processRequest calls: the arguments
    thrown,                 \* the value caught at line 445
    suspended               \* the other call of handleRequest in flight on
                            \* this server, waiting at an await: <<>> or
                            \* <<its variables>>

inputs == <<options, request, serverContext>>
locals ==
    <<response, onRequestDoneHooks, requestParser, onRequestParseDoneList,
      params, initialContext>>
logs ==
    <<reqLog, endLog, doneLog, parseLog, parserLog, pdLog, lateLog, envLog,
      execLog>>
vars ==
    <<inputs, pc, i, locals, result, nextId, lateCalls, logs, thrown,
      suspended>>

Pending == [kind |-> "pending", response |-> NoResponse, error |-> NoThrow]

\* handleRequest(request, serverContext) is entered on a server constructed
\* with options, for one of the given inputs
Entered(ins) ==
    /\ \E in \in ins :
          /\ options = in[1]
          /\ request = in[2]
          /\ serverContext = in[3]
    /\ pc = "onRequest"
    /\ i = 1
    /\ response = NoResponse
    /\ onRequestDoneHooks = <<>>
    /\ requestParser = NoopParser
    /\ onRequestParseDoneList = <<>>
    /\ params = EmptyParams
    /\ initialContext = EmptyParams
    /\ result = Pending
    /\ nextId = 1
    /\ lateCalls = 0
    /\ reqLog = <<>>
    /\ endLog = <<>>
    /\ doneLog = <<>>
    /\ parseLog = <<>>
    /\ parserLog = <<>>
    /\ pdLog = <<>>
    /\ lateLog = <<>>
    /\ envLog = <<>>
    /\ execLog = <<>>
    /\ thrown = NoThrow
    /\ suspended = <<>>

Init == Entered(Inputs)

\* JSON.stringify of the one entry of errors (lines 449-453): a GraphQLError
\* as it is, otherwise { message: error.message }
ErrorEntry(error) ==
    IF error.kind = "GraphQLError"
    THEN [message |-> error.message, extensions |-> error.extensions]
    ELSE [message |-> error.message, extensions |-> Absent]

\* the response of the catch block (lines 446-460)
FatalResponse(id, error) ==
    NewResponse(id,
                [text |-> "json", errors |-> <<ErrorEntry(error)>>,
                 data |-> NoData],
                500, NoHeaders)

\* error.message can be read: error is neither null nor undefined
HasProperties(error) == error.kind # "null"

\* catch (error: any) { ... return response } with id the next identity
Catch(error, id) ==
    /\ thrown' = error
    /\ IF HasProperties(error)
       THEN /\ result' = [kind |-> "response",
                          response |-> FatalResponse(id, error),
                          error |-> NoThrow]
            /\ nextId' = id + 1
            /\ pc' = "returned"
       ELSE /\ result' = [kind |-> "rejected", response |-> NoResponse,
                          error |-> TypeErrorValue]
            /\ nextId' = id
            /\ pc' = "rejected"

\* return response
Return(resp) ==
    /\ result' = [kind |-> "response", response |-> resp, error |-> NoThrow]
    /\ pc' = "returned"
    /\ thrown' = thrown

\* mutant: the response is returned without running the hooks
RunDoneHooks_none(phase, resp, hooks) == Return(resp) /\ i' = i

\* for (const onRequestDoneHook of onRequestDoneHooks) ...; return response
\* (lines 379-382 and 441-444), entered with the hooks registered so far
RunDoneHooks(phase, resp, hooks) ==
    IF hooks = <<>>
    THEN Return(resp) /\ i' = i
    ELSE pc' = phase /\ i' = 1 /\ result' = result /\ thrown' = thrown

\* new this.fetchAPI.Response(body, init) for the k-th endResponse call
EndResponse(id, call) == NewResponse(id, call.body, call.status, call.headers)

\* mutant: the hook that ended the response is not registered
PushDoneHook_unlessEnded(list, hook, b) ==
    IF b.done # "none" /\ b.ends = <<>> THEN Append(list, hook) ELSE list

\* if (onRequestHookResult?.onRequestDone != null) push (lines 375-377)
PushDoneHook(list, hook, b) ==
    IF b.done # "none" THEN Append(list, hook) ELSE list

\* mutant: the loop goes on after endResponse
Ended_never(resp) == FALSE

\* if (response) (line 378)
Ended(resp) == resp # NoResponse

\* mutant: a loop is left after its first pass
LoopDone_early(k, hooks) == TRUE

\* for (const hook of hooks): the pass for hooks[k] was the last one
LoopDone(k, hooks) == k >= Len(hooks)

\* one pass of the loop of lines 366-384
OnRequest ==
    /\ pc = "onRequest"
    /\ LET hooks == onRequestHooks(options)
           hook == hooks[i]
       IN  \E b \in OnRequestHook(hook, request, options) :
             LET n == Len(b.ends)
                 made == [k \in 1..n |-> EndResponse(nextId + k - 1, b.ends[k])]
                 resp == IF n = 0 THEN NoResponse ELSE made[n]
                 registered == PushDoneHook(onRequestDoneHooks, hook, b)
             IN  /\ reqLog' = Append(reqLog, [hook |-> hook,
                                              done |-> b.done # "none",
                                              probe |-> b.probe])
                 /\ endLog' = endLog \o [k \in 1..n |->
                                           [hook |-> hook, id |-> made[k].id]]
                 /\ IF b.throws # NoThrow
                    THEN /\ Catch(b.throws, nextId + n)
                         /\ UNCHANGED <<i, locals>>
                    ELSE /\ onRequestDoneHooks' = registered
                         /\ response' = resp
                         /\ IF Ended(resp)
                            THEN /\ RunDoneHooks("earlyDone", resp, registered)
                                 /\ nextId' = nextId + n
                            ELSE /\ nextId' = nextId
                                 /\ result' = result
                                 /\ thrown' = thrown
                                 /\ IF ~LoopDone(i, hooks)
                                    THEN pc' = "onRequest" /\ i' = i + 1
                                    ELSE pc' = "onRequestParse" /\ i' = 1
                         /\ UNCHANGED <<requestParser, onRequestParseDoneList,
                                        params, initialContext>>
    /\ UNCHANGED <<inputs, suspended, lateCalls, doneLog, parseLog, parserLog, pdLog,
                   lateLog, envLog, execLog>>

\* await onRequestDoneHook({ response }) (lines 380 and 442) and, after the
\* last one, return response
OnRequestDone ==
    /\ pc \in {"earlyDone", "done"}
    /\ LET hook == onRequestDoneHooks[i]
       IN  /\ doneLog' = Append(doneLog, [hook |-> hook, id |-> response.id])
           /\ \/ /\ response' = OnRequestDoneHook(hook, response, request, options)
                 /\ nextId' = nextId
                 /\ IF ~LoopDone(i, onRequestDoneHooks)
                    THEN /\ i' = i + 1
                         /\ UNCHANGED <<pc, result, thrown>>
                    ELSE Return(response') /\ i' = i
              \/ \E t \in OnRequestDoneThrows(hook) :
                    /\ Catch(t, nextId)
                    /\ UNCHANGED <<i, response>>
    /\ UNCHANGED <<inputs, suspended, onRequestDoneHooks, requestParser,
                   onRequestParseDoneList, params, initialContext, lateCalls,
                   reqLog, endLog, parseLog, parserLog, pdLog, lateLog, envLog,
                   execLog>>

\* one pass of the loop of lines 389-401
OnRequestParse ==
    /\ pc = "onRequestParse"
    /\ LET hooks == onRequestParseHooks(options)
           hook == hooks[i]
       IN  \E b \in OnRequestParseHook(hook, request) :
             /\ parseLog' = Append(parseLog, [hook |-> hook,
                                              requestParser |-> requestParser,
                                              sets |-> b.sets,
                                              done |-> b.done # "none"])
             /\ IF b.throws # NoThrow
                THEN /\ Catch(b.throws, nextId)
                     /\ UNCHANGED <<i, requestParser, onRequestParseDoneList>>
                ELSE /\ requestParser' =
                            ApplyAll(setRequestParser, requestParser, b.sets)
                     /\ onRequestParseDoneList' =
                            IF b.done # "none"
                            THEN Append(onRequestParseDoneList, hook)
                            ELSE onRequestParseDoneList
                     /\ IF ~LoopDone(i, hooks)
                        THEN pc' = "onRequestParse" /\ i' = i + 1
                        ELSE pc' = "parse" /\ i' = 1
                     /\ UNCHANGED <<result, nextId, thrown>>
    /\ UNCHANGED <<inputs, suspended, response, onRequestDoneHooks, params,
                   initialContext, lateCalls, reqLog, endLog, doneLog,
                   parserLog, pdLog, lateLog, envLog, execLog>>

\* mutant: the rejection is swallowed and handleRequest goes on with the
\* ParamBag it has
ParserRejects_swallowed(error, id) ==
    /\ thrown' = error
    /\ result' = result
    /\ nextId' = id
    /\ pc' = IF onRequestParseDoneList = <<>> THEN "context"
             ELSE "onRequestParseDone"

\* await requestParser(request) rejects inside the try block: control goes
\* to the catch block and params is never assigned
ParserRejects(error, id) == Catch(error, id)

\* let params = await requestParser(request) (line 404)
Parse ==
    /\ pc = "parse"
    /\ parserLog' = Append(parserLog, requestParser)
    /\ \/ /\ params' = ParserResult(requestParser, request)
          /\ pc' = IF onRequestParseDoneList = <<>> THEN "context"
                   ELSE "onRequestParseDone"
          /\ UNCHANGED <<result, nextId, thrown>>
       \/ \E t \in ParserThrows(requestParser) :
             /\ ParserRejects(t, nextId)
             /\ UNCHANGED params
    /\ UNCHANGED <<inputs, suspended, i, response, onRequestDoneHooks, requestParser,
                   onRequestParseDoneList, initialContext, lateCalls, reqLog,
                   endLog, doneLog, parseLog, pdLog, lateLog, envLog, execLog>>

\* one pass of the loop of lines 406-413
OnRequestParseDone ==
    /\ pc = "onRequestParseDone"
    /\ LET hook == onRequestParseDoneList[i]
       IN  \E b \in UserOnRequestParseDone(hook.n) :
             /\ pdLog' = Append(pdLog, [hook |-> hook, params |-> params,
                                        sets |-> b.sets])
             /\ IF b.throws # NoThrow
                THEN /\ Catch(b.throws, nextId)
                     /\ UNCHANGED <<i, params>>
                ELSE /\ params' = ApplyAll(setParams, params, b.sets)
                     /\ IF ~LoopDone(i, onRequestParseDoneList)
                        THEN pc' = "onRequestParseDone" /\ i' = i + 1
                        ELSE pc' = "context" /\ i' = 1
                     /\ UNCHANGED <<result, nextId, thrown>>
    /\ UNCHANGED <<inputs, suspended, response, onRequestDoneHooks, requestParser,
                   onRequestParseDoneList, initialContext, lateCalls, reqLog,
                   endLog, doneLog, parseLog, parserLog, lateLog, envLog,
                   execLog>>

\* { request, ...params, ...serverContext } (lines 415-419): a key of
\* serverContext replaces the same key of params
BuildInitialContext(bag, context) ==
    [k \in ParamKeys |-> IF context[k] # Absent THEN context[k] ELSE bag[k]]

\* the query, variables and operationName of the processRequest call
\* (lines 428-430)
ProcessRequestArgs(context) ==
    [query |-> context.query, variables |-> context.variables,
     operationName |-> context.operationName]

\* lines 415-440 up to the await: the initial context, getEnveloped and the
\* call of processRequest
Execute ==
    /\ pc = "context"
    /\ initialContext' = BuildInitialContext(params, serverContext)
    /\ envLog' = Append(envLog, [params |-> params,
                                 context |-> initialContext'])
    /\ \/ /\ execLog' = Append(execLog, ProcessRequestArgs(initialContext'))
          /\ pc' = "processRequest"
          /\ UNCHANGED <<result, nextId, thrown>>
       \/ \E t \in Thrown :
             /\ Catch(t, nextId)
             /\ UNCHANGED execLog
    /\ UNCHANGED <<inputs, suspended, i, response, onRequestDoneHooks, requestParser,
                   onRequestParseDoneList, params, lateCalls, reqLog, endLog,
                   doneLog, parseLog, parserLog, pdLog, lateLog>>

\* mutant: processRequest reads the params variable while it runs
Executed_live(args, live) == live

\* what processRequest works on: the arguments of its call, not the
\* variables of handleRequest
Executed(args, live) == args

\* the response processRequest renders for the operation it executed
ExecutionResponse(id, args) ==
    NewResponse(id, [text |-> "result", errors |-> <<>>, data |-> args], 200,
                "Content-Type" :> <<"application/json">>)

\* const response = await processRequest(...) settles (line 426)
ProcessRequest ==
    /\ pc = "processRequest"
    /\ \/ /\ response' = ExecutionResponse(nextId,
                Executed(execLog[Len(execLog)], ProcessRequestArgs(params)))
          /\ nextId' = nextId + 1
          /\ RunDoneHooks("done", response', onRequestDoneHooks)
       \/ \E t \in Thrown :
             /\ Catch(t, nextId)
             /\ UNCHANGED <<i, response>>
    /\ UNCHANGED <<inputs, suspended, onRequestDoneHooks, requestParser,
                   onRequestParseDoneList, params, initialContext, lateCalls,
                   logs>>

\* the last parse-done hook kept setParams and calls it while processRequest
\* runs
LateSetParams ==
    /\ pc = "processRequest"
    /\ lateCalls < MaxLateCalls
    /\ \E k \in {Len(pdLog)} \ {0} :
          LET hook == pdLog[k].hook
          IN  /\ params' = setParams(params, UserSetParams(hook.n))
              /\ lateLog' = Append(lateLog, [call |-> "setParams",
                                             hook |-> hook])
    /\ lateCalls' = lateCalls + 1
    /\ UNCHANGED <<inputs, suspended, pc, i, response, onRequestDoneHooks, requestParser,
                   onRequestParseDoneList, initialContext, result, nextId,
                   reqLog, endLog, doneLog, parseLog, parserLog, pdLog, envLog,
                   execLog, thrown>>

\* the last onRequestParse hook kept setRequestParser and calls it while
\* processRequest runs
LateSetRequestParser ==
    /\ pc = "processRequest"
    /\ lateCalls < MaxLateCalls
    /\ \E k \in {Len(parseLog)} :
          LET hook == parseLog[k].hook
          IN  /\ hook.name = "user"
              /\ requestParser' =
                    setRequestParser(requestParser, UserParser(hook.n))
              /\ lateLog' = Append(lateLog, [call |-> "setRequestParser",
                                             hook |-> hook])
    /\ lateCalls' = lateCalls + 1
    /\ UNCHANGED <<inputs, suspended, pc, i, response, onRequestDoneHooks,
                   onRequestParseDoneList, params, initialContext, result,
                   nextId, reqLog, endLog, doneLog, parseLog, parserLog, pdLog,
                   envLog, execLog, thrown>>

Next ==
    \/ OnRequest
    \/ OnRequestDone
    \/ OnRequestParse
    \/ Parse
    \/ OnRequestParseDone
    \/ Execute
    \/ ProcessRequest
    \/ LateSetParams
    \/ LateSetRequestParser

Spec == Init /\ [][Next]_vars

(***************************************************************************)
(* handleRequest with a plugin that kept endResponse and calls it after    *)
(* its onRequest hook has completed                                        *)
(***************************************************************************)

\* the deferred call: endResponse('late', { status: 299 })
LateEnd == EndCall(TextBody("late"), 299, NoHeaders)

\* the response variable of the loop pass of the last hook invoked (line
\* 367) is still read: handleRequest is in the loop of lines 379-381 of that
\* pass and has awaited a completion hook, so the next { response } and
\* return response read it
PassLive == pc = "earlyDone" /\ i > 1

\* the last onRequest hook invoked, a user plugin's, calls the endResponse
\* it kept (the closure of lines 371-373) while handleRequest waits at a
\* later await: a Response is constructed and assigned to the response
\* variable of the pass of that hook
LateEndResponse ==
    /\ pc \notin {"returned", "rejected"}
    /\ pc = "earlyDone" => i > 1
    /\ lateCalls < MaxLateCalls
    /\ reqLog # <<>>
    /\ LET hook == reqLog[Len(reqLog)].hook
           made == EndResponse(nextId, LateEnd)
       IN  /\ hook.name = "user"
           /\ response' = IF PassLive THEN made ELSE response
           /\ lateLog' = Append(lateLog, [call |-> "endResponse",
                                          hook |-> hook, id |-> made.id])
    /\ nextId' = nextId + 1
    /\ lateCalls' = lateCalls + 1
    /\ UNCHANGED <<inputs, suspended, pc, i, onRequestDoneHooks, requestParser,
                   onRequestParseDoneList, params, initialContext, result,
                   reqLog, endLog, doneLog, parseLog, parserLog, pdLog, envLog,
                   execLog, thrown>>

LateInit == Entered(PluginInputs)

LateNext ==
    \/ OnRequest
    \/ OnRequestDone
    \/ OnRequestParse
    \/ Parse
    \/ OnRequestParseDone
    \/ Execute
    \/ ProcessRequest
    \/ LateEndResponse

LateSpec == LateInit /\ [][LateNext]_vars

(***************************************************************************)
(* getCORSResponseHeaders over its inputs: handleRequest on servers        *)
(* without user plugins, for every CORS policy and request                 *)
(***************************************************************************)

CorsInit == Entered(CorsInputs)

CorsNext ==
    \/ OnRequest
    \/ OnRequestDone
    \/ OnRequestParse
    \/ Parse
    \/ Execute
    \/ ProcessRequest

CorsSpec == CorsInit /\ [][CorsNext]_vars

(***************************************************************************)
(* Two requests in flight on one server: handleRequest is called again     *)
(* while a call is waiting at an await, and the two calls take turns       *)
(***************************************************************************)

\* the variables of one call of handleRequest: its arguments, the locals
\* declared in its body, the await it is at, and what is logged of it
Frame ==
    [request |-> request, serverContext |-> serverContext, pc |-> pc,
     i |-> i, response |-> response,
     onRequestDoneHooks |-> onRequestDoneHooks,
     requestParser |-> requestParser,
     onRequestParseDoneList |-> onRequestParseDoneList, params |-> params,
     initialContext |-> initialContext, result |-> result,
     lateCalls |-> lateCalls, reqLog |-> reqLog, endLog |-> endLog,
     doneLog |-> doneLog, parseLog |-> parseLog, parserLog |-> parserLog,
     pdLog |-> pdLog, lateLog |-> lateLog, envLog |-> envLog,
     execLog |-> execLog, thrown |-> thrown]

\* the variables of a call of handleRequest(req, context) at its entry
NewCall(req, context) ==
    [request |-> req, serverContext |-> context, pc |-> "onRequest", i |-> 1,
     response |-> NoResponse, onRequestDoneHooks |-> <<>>,
     requestParser |-> NoopParser, onRequestParseDoneList |-> <<>>,
     params |-> EmptyParams, initialContext |-> EmptyParams,
     result |-> Pending, lateCalls |-> 0, reqLog |-> <<>>, endLog |-> <<>>,
     doneLog |-> <<>>, parseLog |-> <<>>, parserLog |-> <<>>, pdLog |-> <<>>,
     lateLog |-> <<>>, envLog |-> <<>>, execLog |-> <<>>, thrown |-> NoThrow]

\* mutant: the variable is a field of the server, one for all calls
Local_shared(own, live) == live

\* a variable declared with let or const in the body of handleRequest
\* (lines 365, 386, 387, 404): every call has its own
Local(own, live) == own

\* the call with variables f goes on
Resume(f) ==
    /\ request' = f.request
    /\ serverContext' = f.serverContext
    /\ pc' = f.pc
    /\ i' = f.i
    /\ response' = f.response
    /\ onRequestDoneHooks' = Local(f.onRequestDoneHooks, onRequestDoneHooks)
    /\ requestParser' = Local(f.requestParser, requestParser)
    /\ onRequestParseDoneList' =
          Local(f.onRequestParseDoneList, onRequestParseDoneList)
    /\ params' = Local(f.params, params)
    /\ initialContext' = f.initialContext
    /\ result' = f.result
    /\ lateCalls' = f.lateCalls
    /\ reqLog' = f.reqLog
    /\ endLog' = f.endLog
    /\ doneLog' = f.doneLog
    /\ parseLog' = f.parseLog
    /\ parserLog' = f.parserLog
    /\ pdLog' = f.pdLog
    /\ lateLog' = f.lateLog
    /\ envLog' = f.envLog
    /\ execLog' = f.execLog
    /\ thrown' = f.thrown

\* the requests that are in flight together: a GET and a JSON POST of
\* /graphql and a readiness probe
PairRequests ==
    { r \in Requests :
        /\ r.headers = PlainHeaders
        /\ ~r.html
        /\ \/ r.url = <<"/graphql">> /\ r.method = "GET"
           \/ r.url = <<"/graphql">> /\ r.contentType = "application/json"
           \/ r.url = <<"/readiness">> /\ r.method = "GET" }

PairInputs == {DefaultOptions} \X PairRequests \X {EmptyParams}

\* handleRequest is called for another request while the first call waits
Arrive ==
    /\ suspended = <<>>
    /\ pc \notin {"returned", "rejected"}
    /\ \E req \in PairRequests : Resume(NewCall(req, EmptyParams))
    /\ suspended' = <<Frame>>
    /\ UNCHANGED <<options, nextId>>

\* the call that waits goes on and the running one waits at its await
Switch ==
    /\ suspended # <<>>
    /\ suspended[1].pc \notin {"returned", "rejected"}
    /\ Resume(suspended[1])
    /\ suspended' = <<Frame>>
    /\ UNCHANGED <<options, nextId>>

PairInit == Entered(PairInputs)

PairNext ==
    \/ OnRequest
    \/ OnRequestDone
    \/ OnRequestParse
    \/ Parse
    \/ Execute
    \/ ProcessRequest
    \/ Arrive
    \/ Switch

PairSpec == PairInit /\ [][PairNext]_vars

(***************************************************************************)
(* Properties                                                              *)
(***************************************************************************)

Finished == pc \in {"returned", "rejected"}

\* the hooks of reqLog that returned an onRequestDone hook, in order
ReturnedDoneHooks ==
    LET returned(e) == e.done
        kept == SelectSeq(reqLog, returned)
    IN  [k \in 1..Len(kept) |-> kept[k].hook]

\* handleRequest returned the response that endResponse or processRequest
\* made, not the one of the catch block
ReturnedProduced ==
    /\ pc = "returned"
    /\ response # NoResponse
    /\ result.response.id = response.id

\* C1: once an onRequest hook has called endResponse, it is the last
\* onRequest hook invoked for the request, and no onRequestParse hook, no
\* request parser, no getEnveloped and no processRequest is invoked.
C1_EndResponseStopsPipeline ==
    \A k \in 1..Len(endLog) :
        /\ reqLog[Len(reqLog)].hook = endLog[k].hook
        /\ \A j \in 1..Len(onRequestHooks(options)) :
              j > Len(reqLog) =>
                 \A m \in 1..Len(reqLog) :
                    reqLog[m].hook # onRequestHooks(options)[j]
        /\ parseLog = <<>>
        /\ parserLog = <<>>
        /\ envLog = <<>>
        /\ execLog = <<>>

\* the first user plugin ended the response, a later onRequest hook exists
C1_Witness ==
    /\ pc = "returned"
    /\ endLog # <<>>
    /\ endLog[1].hook = Plugin("user", 1)
    /\ options.plugins > 1
    /\ Len(reqLog) < Len(onRequestHooks(options))

C3_NeverRejects == result.kind # "rejected"

\* C4: when a step has failed, handleRequest returns a response of status 500
\* whose errors list has one entry: the GraphQLError thrown, or else an
\* object with only the message string of the failure.
C4_FailureIsOneError ==
    (Finished /\ thrown # NoThrow) =>
        /\ result.kind = "response"
        /\ result.response.status = 500
        /\ Len(result.response.body.errors) = 1
        /\ LET entry == result.response.body.errors[1]
           IN  IF thrown.kind = "GraphQLError"
               THEN entry = [message |-> thrown.message,
                             extensions |-> thrown.extensions]
               ELSE entry.message # Absent /\ entry.extensions = Absent

RECURSIVE ParserAfter(_, _)
\* the parser in force after the setRequestParser calls of the first k
\* onRequestParse hooks: the argument of the last call, or the no-op parser
ParserAfter(log, k) ==
    IF k = 0 THEN NoopParser
    ELSE IF log[k].sets # <<>> THEN log[k].sets[Len(log[k].sets)]
    ELSE ParserAfter(log, k - 1)

\* C5: the parser invoked is the argument of the last setRequestParser call
\* in registration order, one parser is invoked, and every onRequestParse
\* hook gets as requestParser the parser in force when it is invoked.
C5_LastParserWins ==
    /\ Len(parserLog) <= 1
    /\ \A k \in 1..Len(parseLog) :
          parseLog[k].requestParser = ParserAfter(parseLog, k - 1)
    /\ parserLog # <<>> => parserLog[1] = ParserAfter(parseLog, Len(parseLog))

\* two hooks installed a parser and the second one's was invoked
C5_Witness ==
    /\ parserLog # <<>>
    /\ \E j, k \in 1..Len(parseLog) :
          /\ j < k
          /\ parseLog[j].sets # <<>>
          /\ parseLog[k].sets # <<>>
          /\ parseLog[j].sets # parseLog[k].sets
          /\ parserLog[1] = parseLog[k].sets[1]

RECURSIVE ParamsAfter(_, _)
\* the ParamBag after the setParams calls of the first k parse-done hooks:
\* the argument of the last call, or the result of the parser
ParamsAfter(log, k) ==
    IF k = 0 THEN ParserResult(parserLog[1], request)
    ELSE IF log[k].sets # <<>> THEN log[k].sets[Len(log[k].sets)]
    ELSE ParamsAfter(log, k - 1)

\* the hooks of parseLog that returned an onRequestParseDone hook, in order
ReturnedParseDoneHooks ==
    LET returned(e) == e.done
        kept == SelectSeq(parseLog, returned)
    IN  [k \in 1..Len(kept) |-> kept[k].hook]

\* C6: the parse-done hooks run after the parser, in registration order; each
\* gets the ParamBag left by the last setParams call before it (the parser's
\* result if there was none), and the ParamBag spread into the initial
\* context is the one left by the last setParams call of these hooks.
C6_LastParamsWin ==
    /\ pdLog # <<>> => parserLog # <<>>
    /\ \A k \in 1..Len(pdLog) :
          /\ k <= Len(ReturnedParseDoneHooks)
          /\ pdLog[k].hook = ReturnedParseDoneHooks[k]
          /\ pdLog[k].params = ParamsAfter(pdLog, k - 1)
    /\ envLog # <<>> =>
          /\ Len(pdLog) = Len(ReturnedParseDoneHooks)
          /\ envLog[1].params = ParamsAfter(pdLog, Len(pdLog))

\* two parse-done hooks called setParams and execution was reached
C6_Witness ==
    /\ execLog # <<>>
    /\ Len(pdLog) >= 2
    /\ pdLog[1].sets # <<>>
    /\ pdLog[2].sets # <<>>
    /\ parserLog[1].kind = "user"

\* C7: processRequest is called at most once, and what it executes is what
\* it was called with: a setParams or setRequestParser call made after the
\* initial context was built changes neither the arguments nor the operation
\* executed.
C7_FrozenOnceExecuting ==
    /\ Len(execLog) <= 1
    /\ Len(envLog) <= 1
    /\ execLog # <<>> =>
          execLog[1] = ProcessRequestArgs(
                          BuildInitialContext(envLog[1].params, serverContext))
    /\ (response.body.text = "result") => response.body.data = execLog[1]

\* setParams was called while processRequest ran, with another ParamBag than
\* the one executed, and the response of the execution was returned
C7_Witness ==
    /\ ReturnedProduced
    /\ response.body.text = "result"
    /\ \E k \in 1..Len(lateLog) : lateLog[k].call = "setParams"
    /\ ProcessRequestArgs(params) # execLog[1]

\* C8: the query, variables and operationName of the processRequest call are
\* those of the resolved ParamBag, for every serverContext.
C8_ExecutesResolvedParams ==
    execLog # <<>> => execLog[1] = ProcessRequestArgs(envLog[1].params)

\* C9: when handleRequest has settled, on whatever path, every hook
\* registered in onRequestDoneHooks has been run.
C9_DoneHooksOnEveryPath ==
    Finished =>
        \A k \in 1..Len(ReturnedDoneHooks) :
            \E m \in 1..Len(doneLog) : doneLog[m].hook = ReturnedDoneHooks[k]

\* C9 amended: when handleRequest returns the response made by endResponse or
\* by processRequest, every hook registered in onRequestDoneHooks has been
\* run before.
C9_DoneHooksUnlessFatal ==
    ReturnedProduced =>
        \A k \in 1..Len(onRequestDoneHooks) :
            \E m \in 1..Len(doneLog) : doneLog[m].hook = onRequestDoneHooks[k]

\* the response of processRequest was returned after two completion hooks
C9_Witness ==
    /\ ReturnedProduced
    /\ response.body.text = "result"
    /\ Len(onRequestDoneHooks) >= 2
    /\ Len(doneLog) >= 2

\* C10: a request whose path ends with /health is answered 200 with the
\* liveness body and the identity header, whatever the options and the
\* request.
C10_HealthAlwaysAlive ==
    (Finished /\ EndsWith(BeforeQuery(request.url), "/health")) =>
        /\ result.kind = "response"
        /\ result.response.status = 200
        /\ result.response.body.text = "alive"
        /\ "x-yoga-id" \in DOMAIN result.response.headers
        /\ result.response.headers["x-yoga-id"]
              = <<HealthCheckId(ServerId(options))>>

\* handleRequest returned the 200 response whose body is { "message": "ready" }
AnsweredReady ==
    /\ result.kind = "response"
    /\ result.response.status = 200
    /\ result.response.body.text = "ready"

\* the k-th onRequest hook invoked made the readiness round trip and read
\* an answer from it
Probed(k) == reqLog[k].probe # None /\ reqLog[k].probe[1].answer # None

\* the answer read by the round trip of the k-th hook
ProbeAnswer(k) == reqLog[k].probe[1].answer[1]

\* the answer has status 200, this instance's identity and the liveness body
ProbeMatches(a) ==
    /\ a.status = 200
    /\ a.id = HealthCheckId(ServerId(options))
    /\ a.message = "alive"

\* C11: a request is answered 200 with the body ready if and only if the
\* round trip to /health returned status 200, this instance's identity in
\* x-yoga-id and the liveness body; when the round trip returned anything
\* else, the failure is thrown and handleRequest returns a 500 response.
C11_ReadyIffProbeMatches ==
    Finished =>
        /\ AnsweredReady <=>
              \E k \in 1..Len(reqLog) : Probed(k) /\ ProbeMatches(ProbeAnswer(k))
        /\ \A k \in 1..Len(reqLog) :
              (Probed(k) /\ ~ProbeMatches(ProbeAnswer(k))) =>
                  /\ thrown = ReadinessError
                  /\ result.kind = "response"
                  /\ result.response.status = 500

\* the round trip returned 200 and the liveness body with another identity,
\* and the request was answered 500
C11_Witness ==
    /\ Finished
    /\ EndsWith(BeforeQuery(request.url), "/readiness")
    /\ \E k \in 1..Len(reqLog) :
          /\ Probed(k)
          /\ reqLog[k].probe[1].url = <<"/health">>
          /\ ProbeAnswer(k).status = 200
          /\ ProbeAnswer(k).message = "alive"
          /\ ProbeAnswer(k).id # HealthCheckId(ServerId(options))
    /\ result.kind = "response"
    /\ result.response.status = 500

\* C12: a readiness probe whose round trip is answered by the /health of
\* another server instance, however that instance was constructed, is not
\* answered ready.
C12_PeerAnswerNeverReady ==
    Finished =>
        \A k \in 1..Len(reqLog) :
            (Probed(k) /\ ProbeAnswer(k).by = "peer") => ~AnsweredReady

\* useCORS has put the headers of getCORSResponseHeaders on the response:
\* it answered the preflight or its onRequestDone hook has run
CorsApplied ==
    \/ \E k \in 1..Len(endLog) : endLog[k].hook = Plugin("useCORS", 0)
    \/ \E k \in 1..Len(doneLog) : doneLog[k].hook = Plugin("useCORS", 0)

\* the Access-Control-Allow-Origin of the response
AllowOrigin == response.headers["Access-Control-Allow-Origin"]

\* the origins the policy's origin option names
Elements(origin) ==
    IF origin.form = "list"
    THEN { origin.list[k] : k \in 1..Len(origin.list) }
    ELSE IF origin.form = "string" THEN { origin.str }
    ELSE {}

\* the request's Origin header is one of the origins the policy names
InAllowList ==
    /\ request.headers.origin # None
    /\ request.headers.origin[1] \in Elements(options.cors.options.origin)

\* the policy names origins, none of them the wildcard, and the request
\* carries an Origin header that is not one of them
Denies ==
    /\ Elements(options.cors.options.origin) # {}
    /\ Elements(options.cors.options.origin) # {<<>>}
    /\ Wildcard \notin Elements(options.cors.options.origin)
    /\ request.headers.origin # None
    /\ ~InAllowList

\* C13: a preflight OPTIONS request whose Origin is in the policy's allow-list
\* is answered 204 with Access-Control-Allow-Origin equal to that origin,
\* with or without the credential signal.
C13_AllowedPreflightEchoesOrigin ==
    (Finished /\ ToUpperCase(request.method) = "OPTIONS" /\ InAllowList) =>
        /\ result.kind = "response"
        /\ result.response.status = 204
        /\ result.response.headers["Access-Control-Allow-Origin"]
              = request.headers.origin[1]

\* C14: when the policy names origins, not the wildcard, and the request's
\* Origin is not one of them, Access-Control-Allow-Origin is null, for the
\* list form and for the string form of the option.
C14_DeniedOriginIsNull ==
    (CorsApplied /\ Denies) => AllowOrigin = <<"null">>

\* C15: when the allow-list does not deny the request,
\* Access-Control-Allow-Origin is the request's Origin if the request carries
\* an Origin and the cookies header, and * otherwise.
C15_NarrowedOrWildcard ==
    (CorsApplied /\ ~Denies) =>
        AllowOrigin =
            IF Truthy(request.headers.origin) /\ Truthy(request.headers.cookies)
            THEN request.headers.origin[1]
            ELSE Wildcard

\* an allow-listed origin with the cookies header was echoed
C15_Witness ==
    /\ CorsApplied
    /\ InAllowList
    /\ request.headers.origin = Some(OriginA)
    /\ request.headers.cookies # None
    /\ AllowOrigin = OriginA

\* C16: whenever Access-Control-Allow-Origin is not *, the Vary header
\* contains Origin, also when Access-Control-Request-Headers is reflected.
C16_VaryNamesOrigin ==
    (CorsApplied /\ AllowOrigin # Wildcard) =>
        /\ "Vary" \in DOMAIN response.headers
        /\ StringIncludes(response.headers["Vary"], <<"Origin">>)

\* Access-Control-Allow-Credentials: true is on the response
CredentialsAllowed ==
    /\ "Access-Control-Allow-Credentials" \in DOMAIN response.headers
    /\ response.headers["Access-Control-Allow-Credentials"] = <<"true">>

\* C17: Access-Control-Allow-Credentials: true is set exactly when the policy
\* sets credentials true or Access-Control-Allow-Origin is not *; otherwise
\* the header is absent.
C17_CredentialsIffTrueOrNarrowed ==
    CorsApplied =>
        /\ CredentialsAllowed <=>
              \/ options.cors.options.credentials = Some(TRUE)
              \/ AllowOrigin # Wildcard
        /\ CredentialsAllowed
              \/ "Access-Control-Allow-Credentials" \notin DOMAIN response.headers

\* C17 amended: Access-Control-Allow-Credentials: true is set exactly when
\* the policy sets credentials true, or the policy does not set credentials
\* and Access-Control-Allow-Origin is not *; otherwise the header is absent.
C17_CredentialsUnlessFalse ==
    CorsApplied =>
        /\ CredentialsAllowed <=>
              \/ options.cors.options.credentials = Some(TRUE)
              \/ /\ options.cors.options.credentials = None
                 /\ AllowOrigin # Wildcard
        /\ CredentialsAllowed
              \/ "Access-Control-Allow-Credentials" \notin DOMAIN response.headers

\* the policy sets credentials false, the origin was narrowed and the header
\* is absent
C17_Witness ==
    /\ CorsApplied
    /\ options.cors.options.credentials = Some(FALSE)
    /\ AllowOrigin = OriginA
    /\ "Access-Control-Allow-Credentials" \notin DOMAIN response.headers

\* the response carries every header getCORSResponseHeaders computes for the
\* request
CarriesCorsHeaders(resp) ==
    LET headers == getCORSResponseHeaders(request, options.cors.options)
    IN  \A name \in DOMAIN headers :
            /\ name \in DOMAIN resp.headers
            /\ resp.headers[name] = headers[name]

\* a request other than a preflight, on a server that installs useCORS
CorsStamps ==
    /\ options.cors.enabled
    /\ ToUpperCase(request.method) # "OPTIONS"

\* C18: for a request whose method is not OPTIONS, the response handleRequest
\* returns carries the headers of getCORSResponseHeaders, whichever way the
\* response was produced.
C18_CorsHeadersOnEveryResponse ==
    (CorsStamps /\ result.kind = "response") =>
        CarriesCorsHeaders(result.response)

\* C18 amended: for a request whose method is not OPTIONS, when handleRequest
\* returns the response made by endResponse or by processRequest, that
\* response carries the headers of getCORSResponseHeaders.
C18_CorsHeadersOnProducedResponse ==
    (CorsStamps /\ ReturnedProduced) => CarriesCorsHeaders(result.response)

\* the response a later hook made with endResponse was returned with the
\* CORS headers on it
C18_Witness ==
    /\ CorsStamps
    /\ ReturnedProduced
    /\ endLog # <<>>
    /\ result.response.body.text = "alive"
    /\ CarriesCorsHeaders(result.response)
    /\ "x-yoga-id" \in DOMAIN result.response.headers

\* C19: a RequestParseError or PayloadTooLargeError raised by the active
\* request parser is answered with a GraphQL-shaped error list and a 4xx
\* status, 413 for the exceeded limit.
C19_ParseFailureIs4xx ==
    (Finished /\ parserLog # <<>>
       /\ thrown \in {RequestParseError, PayloadTooLargeError}) =>
        /\ result.kind = "response"
        /\ result.response.body.errors # <<>>
        /\ result.response.status \in 400..499
        /\ thrown = PayloadTooLargeError => result.response.status = 413

\* no onRequestParse hook has called setRequestParser
NoParserInstalled == \A k \in 1..Len(parseLog) : parseLog[k].sets = <<>>

\* no onRequestParseDone hook has called setParams
NoParamsSet == \A k \in 1..Len(pdLog) : pdLog[k].sets = <<>>

\* C20: if no onRequestParse hook calls setRequestParser (as for a multipart
\* request on a server built with multipart: false), the no-op parser is
\* invoked and yields an empty ParamBag, and unless a step fails execution is
\* invoked, with query, variables and operationName absent.
C20_NoMatchExecutesEmpty ==
    NoParserInstalled =>
        /\ parserLog # <<>> => parserLog[1] = NoopParser
        /\ (envLog # <<>> /\ NoParamsSet) => envLog[1].params = EmptyParams
        /\ (pc = "returned" /\ thrown = NoThrow /\ parserLog # <<>>) =>
              execLog # <<>>
        /\ (execLog # <<>> /\ NoParamsSet) => execLog[1] = NoData

\* every hook registered in onRequestDoneHooks has been invoked
AllDoneHooksRun ==
    \A k \in 1..Len(onRequestDoneHooks) :
        \E m \in 1..Len(doneLog) : doneLog[m].hook = onRequestDoneHooks[k]

\* a Response has been constructed for the request, by endResponse or by
\* processRequest
ResponseExisted == endLog # <<>> \/ response # NoResponse

\* C21: whenever the catch block is taken, every registered completion hook
\* had already been run, or no response existed yet for the request.
C21_FatalAfterHooksOrBeforeResponse ==
    (Finished /\ thrown # NoThrow) => (AllDoneHooksRun \/ ~ResponseExisted)

\* log is a prefix of list: the hooks of list were invoked in order, each
\* at most once
InOrder(log, list) ==
    /\ Len(log) <= Len(list)
    /\ \A k \in 1..Len(log) : log[k].hook = list[k]

\* C22: the stages of a request run one after the other in registration
\* order: the onRequest hooks in plugin order; the onRequestParse hooks in
\* plugin order and only after every onRequest hook has completed without a
\* response; the parser after all onRequestParse hooks; the parse-done hooks
\* in order after the parser; getEnveloped and processRequest after all of
\* them; the completion hooks in order after the response was produced; and
\* while one stage is awaited no later stage has started.
C22_StagesInOrder ==
    /\ InOrder(reqLog, SelectSeq(plugins(options), HasOnRequest))
    /\ InOrder(parseLog, SelectSeq(plugins(options), HasOnRequestParse))
    /\ InOrder(pdLog, ReturnedParseDoneHooks)
    /\ InOrder(doneLog, ReturnedDoneHooks)
    /\ parseLog # <<>> =>
          /\ Len(reqLog) = Len(SelectSeq(plugins(options), HasOnRequest))
          /\ endLog = <<>>
    /\ parserLog # <<>> =>
          Len(parseLog) = Len(SelectSeq(plugins(options), HasOnRequestParse))
    /\ pdLog # <<>> => Len(parserLog) = 1
    /\ envLog # <<>> =>
          /\ Len(parserLog) = 1
          /\ Len(pdLog) = Len(ReturnedParseDoneHooks)
    /\ execLog # <<>> => Len(envLog) = 1
    /\ doneLog # <<>> => (endLog # <<>> \/ response.body.text = "result")
    /\ pc = "onRequest" => (parseLog = <<>> /\ doneLog = <<>>)
    /\ pc = "onRequestParse" => parserLog = <<>>
    /\ pc = "parse" => (parserLog = <<>> /\ pdLog = <<>>)
    /\ pc = "onRequestParseDone" => envLog = <<>>
    /\ pc = "context" => envLog = <<>>
    /\ pc = "processRequest" => doneLog = <<>>
    /\ pc = "earlyDone" => parseLog = <<>>

\* every stage ran for one request: onRequest hooks, onRequestParse hooks,
\* the parser, two parse-done hooks, execution and two completion hooks
C22_Witness ==
    /\ ReturnedProduced
    /\ options.plugins >= 2
    /\ Len(parseLog) = Len(onRequestParseHooks(options))
    /\ Len(pdLog) >= 2
    /\ execLog # <<>>
    /\ Len(doneLog) >= 2

\* the hooks of the entries of log that returned a completion callback
Returned(log) ==
    LET returned(e) == e.done
        kept == SelectSeq(log, returned)
    IN  [k \in 1..Len(kept) |-> kept[k].hook]

\* the call with variables f has its own parser, ParamBag and hook lists:
\* its hooks were invoked in plugin order for its own request, the parser in
\* force is the one its own onRequestParse hooks installed, the lists hold
\* the callbacks its own hooks returned, its ParamBag is what that parser
\* made of its own request, that is what is executed and rendered, and it is
\* answered 500 only for a failure of its own
Own(f) ==
    /\ InOrder(f.reqLog, onRequestHooks(options))
    /\ InOrder(f.parseLog, onRequestParseHooks(options))
    /\ \A k \in 1..Len(f.parseLog) :
          /\ f.parseLog[k].requestParser = ParserAfter(f.parseLog, k - 1)
          /\ \E b \in OnRequestParseHook(f.parseLog[k].hook, f.request) :
                b.sets = f.parseLog[k].sets
    /\ f.pc \in {"onRequestParse", "parse"} =>
          f.requestParser = ParserAfter(f.parseLog, Len(f.parseLog) )
    /\ f.parserLog # <<>> =>
          f.parserLog[1] = ParserAfter(f.parseLog, Len(f.parseLog))
    /\ f.thrown = NoThrow =>
          /\ f.onRequestDoneHooks = Returned(f.reqLog)
          /\ f.onRequestParseDoneList = Returned(f.parseLog)
    /\ f.pc = "context" => f.params = ParserResult(f.parserLog[1], f.request)
    /\ f.envLog # <<>> =>
          /\ f.envLog[1].params = ParserResult(f.parserLog[1], f.request)
          /\ f.envLog[1].context =
                BuildInitialContext(f.envLog[1].params, f.serverContext)
    /\ f.execLog # <<>> =>
          f.execLog[1] = ProcessRequestArgs(f.envLog[1].context)
    /\ f.response.body.text = "result" => f.response.body.data = f.execLog[1]
    /\ InOrder(f.doneLog, f.onRequestDoneHooks)
    /\ \A k \in 1..Len(f.doneLog) : f.doneLog[k].id = f.response.id
    /\ f.pc = "returned" =>
          IF f.thrown = NoThrow
          THEN /\ f.result.response.id = f.response.id
               /\ Len(f.doneLog) = Len(f.onRequestDoneHooks)
          ELSE f.result.response = FatalResponse(f.result.response.id, f.thrown)

\* C23: with two requests in flight on one server, in any interleaving, each
\* call of handleRequest has its own active parser, ParamBag, completion and
\* parse-done lists, none read or changed by the other call; each request
\* gets the hook invocations and the response of its own handling, and a
\* failure of one (a failed readiness probe) leaves the other's outcome as
\* it is.
C23_EachRequestItsOwn ==
    /\ Own(Frame)
    /\ suspended # <<>> => Own(suspended[1])

\* a readiness probe failed while a GET of /graphql was in flight, and the
\* GET was then answered with the result of its own query
C23_Witness ==
    /\ suspended # <<>>
    /\ suspended[1].pc = "returned"
    /\ suspended[1].thrown = ReadinessError
    /\ suspended[1].result.response.status = 500
    /\ pc = "returned"
    /\ thrown = NoThrow
    /\ parserLog = <<Parser("GET", 0)>>
    /\ result.response.status = 200
    /\ result.response.body.data = ProcessRequestArgs(request.graphql)
    /\ suspended[1].result.response.id < result.response.id

\* the health-check hook has been invoked for a request whose path ends with
\* /health or /readiness
ReachedHealthCheck ==
    /\ \/ EndsWith(BeforeQuery(request.url), "/health")
       \/ EndsWith(BeforeQuery(request.url), "/readiness")
    /\ \E k \in 1..Len(reqLog) : reqLog[k].hook = Plugin("useHealthCheck", 0)

\* C24: a request whose path ends with /health or /readiness, once the
\* health-check hook has been invoked for it, causes no later onRequest hook,
\* no onRequestParse hook, no parser, no getEnveloped and no processRequest
\* to be invoked, whether the probe succeeds or fails.
C24_ProbesBypassGraphQL ==
    ReachedHealthCheck =>
        /\ reqLog[Len(reqLog)].hook = Plugin("useHealthCheck", 0)
        /\ pc \in {"earlyDone", "returned", "rejected"}
        /\ parseLog = <<>>
        /\ parserLog = <<>>
        /\ envLog = <<>>
        /\ execLog = <<>>

\* a readiness probe failed in the health-check hook and was answered 500
C24_Witness ==
    /\ ReachedHealthCheck
    /\ pc = "returned"
    /\ thrown = ReadinessError
    /\ reqLog[Len(reqLog)].probe # None
    /\ result.response.status = 500

\* C25: if the active request parser fails, handleRequest settles at once:
\* no parse-done hook runs, getEnveloped and processRequest are not invoked,
\* the ParamBag and the initial context stay unset, and nothing more happens
\* for the request afterwards.
C25_FailedParseIsDiscarded ==
    [][ /\ (pc = "parse" /\ thrown' # NoThrow) =>
              /\ pc' \in {"returned", "rejected"}
              /\ parserLog' = <<requestParser>>
              /\ params' = EmptyParams
              /\ initialContext' = EmptyParams
              /\ pdLog' = <<>>
              /\ envLog' = <<>>
              /\ execLog' = <<>>
              /\ doneLog' = <<>>
        /\ pc \notin {"returned", "rejected"} ]_vars

\* the parser a user plugin installed failed while a parse-done hook was
\* registered, and the request was answered 500
C25_Witness ==
    /\ pc = "returned"
    /\ thrown # NoThrow
    /\ parserLog # <<>>
    /\ parserLog[1].kind = "user"
    /\ onRequestParseDoneList # <<>>
    /\ pdLog = <<>>
    /\ envLog = <<>>
    /\ result.response.status = 500

\* the policy declares a list that has entries
Declared(list) == list # None /\ list[1] # <<>>

\* the response has the header with the value, or has not got the header
\* when the value is <<>>
HeaderIs(name, value) ==
    IF value = None THEN name \notin DOMAIN response.headers
    ELSE /\ name \in DOMAIN response.headers
         /\ response.headers[name] = value[1]

\* the list the policy declares joined with ', ', else the value of the
\* request header when it has one, else no header
Resolved(list, asked) ==
    IF Declared(list) THEN Some(Join(list[1]))
    ELSE IF asked # None /\ asked[1] # <<>> THEN asked
    ELSE None

C27_ExposeAndMaxAgePassThrough ==
    CorsApplied =>
        /\ options.cors.options.exposedHeaders # None =>
              HeaderIs("Access-Control-Expose-Headers",
                       Some(Join(options.cors.options.exposedHeaders[1])))
        /\ options.cors.options.maxAge # None =>
              HeaderIs("Access-Control-Max-Age",
                       Some(<<ToString(options.cors.options.maxAge[1])>>))

\* C29: the headers never combine Access-Control-Allow-Origin: * with
\* Access-Control-Allow-Credentials: true.
C29_NoWildcardWithCredentials ==
    CorsApplied => ~(AllowOrigin = Wildcard /\ CredentialsAllowed)

\* the identities of the responses constructed by deferred endResponse calls
LateIds ==
    { lateLog[k].id : k \in { j \in 1..Len(lateLog) :
                                 lateLog[j].call = "endResponse" } }

\* handleRequest returned a response without anything being thrown
ReturnedNormally == pc = "returned" /\ thrown = NoThrow

\* C28: endResponse takes effect only while the onRequest hook it was given
\* to is awaited: a call made after that hook completed neither stops later
\* hooks nor changes the response handleRequest returns, and when a hook
\* calls endResponse several times during its invocation the response of the
\* last call is the one returned.
C28_EndResponseOnlyDuringHook ==
    ReturnedNormally =>
        /\ result.response.id \notin LateIds
        /\ endLog # <<>> =>
              /\ result.response.id = endLog[Len(endLog)].id
              /\ execLog = <<>>
        /\ endLog = <<>> =>
              /\ Len(reqLog) = Len(onRequestHooks(options))
              /\ execLog # <<>>
====
